---- MODULE Spec2Model ----
(***************************************************************************)
(* A model of prc-rs: the binary param decoder (src/src/disasm.rs) and the *)
(* XML writer (src/src/lib/xml.rs).                                        *)
(*                                                                         *)
(* The decoder works on a byte buffer behind a cursor.  Every number the   *)
(* code reads is kept at its width: a u32 or u64 is the record             *)
(* [hi |-> h, lo |-> l] standing for h * 65536 + l with l < 65536, so that *)
(* the 32-bit sums of the header can overflow exactly where the code's do. *)
(* read_param is recursive; its activations are the frames of `stack`.     *)
(***************************************************************************)
EXTENDS Integers, Sequences, FiniteSets, TLC

VARIABLES
    buf,        \* the bytes behind the cursor (Cursor<Vec<u8>>)
    checks,     \* build profile: TRUE when overflow checks are compiled in
    cursor,     \* cursor.position()
    pc,         \* where disassemble / read_param / write_xml stands
    hashsize,   \* local of disassemble
    refsize,    \* local of disassemble
    fd,         \* FileData
    stack,      \* activations of read_param that decode a List or a Struct
    result,     \* what disassemble gave its caller, or how the process ended
    calls,      \* history: number of read_param invocations
    maxread,    \* history: end of the furthest byte read from buf
    structs,    \* history: the Struct values decoded
    lists,      \* history: the List values decoded
    loads,      \* history: reference-table offsets read from buf, in order
    tree,       \* the ParamStruct given to write_xml
    xml         \* the events write_xml handed to the writer

vars == <<buf, checks, cursor, pc, hashsize, refsize, fd, stack, result,
          calls, maxread, structs, lists, loads, tree, xml>>

-----------------------------------------------------------------------------
(* Bounds *)

\* deepest recursion of read_param the process stack holds
MaxDepth == 6
\* most members of a List or Struct handed to write_xml
MaxWidth == 2

-----------------------------------------------------------------------------
(* Fixed-width numbers *)

NumOf(n) == [hi |-> n \div 65536, lo |-> n % 65536]

Zero == NumOf(0)

NumAdd(a, b) ==
    LET s == a.lo + b.lo
    IN  [hi |-> a.hi + b.hi + (s \div 65536), lo |-> s % 65536]

NumLess(a, b) == a.hi < b.hi \/ (a.hi = b.hi /\ a.lo < b.lo)

Fits32(n) == n.hi < 65536

Wrap32(n) == [hi |-> n.hi % 65536, lo |-> n.lo]

\* hashsize / 8
NumDiv8(a) == [hi |-> a.hi \div 8, lo |-> ((a.hi % 8) * 65536 + a.lo) \div 8]

\* a + b on u32: the exact sum when it fits; otherwise a panic when overflow
\* checks are compiled in, and the sum modulo 2^32 when they are not
Add32(a, b, chk) ==
    LET s == NumAdd(a, b)
    IN  IF Fits32(s) THEN [panic |-> FALSE, val |-> s]
        ELSE IF chk THEN [panic |-> TRUE, val |-> s]
        ELSE [panic |-> FALSE, val |-> Wrap32(s)]

\* four bytes, little endian, as u32
U32LE(b) == [hi |-> b[4] * 256 + b[3], lo |-> b[2] * 256 + b[1]]

\* four bytes, little endian, as i32
I32LE(b) ==
    LET u == U32LE(b)
    IN  IF u.hi >= 32768 THEN (u.hi - 65536) * 65536 + u.lo
        ELSE u.hi * 65536 + u.lo

-----------------------------------------------------------------------------
(* The cursor *)

\* k more bytes can be read at position c
Avail(b, c, k) == c.hi = 0 /\ c.lo + k <= Len(b)

Bytes(b, c, k) == SubSeq(b, c.lo + 1, c.lo + k)

Advance(c, k) == NumAdd(c, NumOf(k))

Max(a, b) == IF a >= b THEN a ELSE b

Min(a, b) == IF a <= b THEN a ELSE b

\* param::MAGIC, "paracobn"
MAGIC == <<112, 97, 114, 97, 99, 111, 98, 110>>

\* the 8-byte array after cursor.read: what the buffer holds, then zeroes
MagicBytes(b) == [i \in 1..8 |-> IF i <= Len(b) THEN b[i] ELSE 0]

\* a comparison of the first four bytes only
PrefixMagic(m) == SubSeq(m, 1, 4) = SubSeq(MAGIC, 1, 4)

\* line 23
MagicOk(m) == m = MAGIC

EmptyTables == [r \in {} |-> <<>>]

NoFd == [ref_start |-> Zero, param_start |-> Zero,
         hash_table |-> <<>>, ref_tables |-> EmptyTables]

Running == [kind |-> "Running"]
Ok(v) == [kind |-> "Ok", val |-> v]
\* an Err returned to the caller, with the line of disasm.rs that made it
Err(m, line) == [kind |-> "Err", msg |-> m, line |-> line]
\* a panic, which ends the process, with the line of disasm.rs that raised it
Panic(m, line) == [kind |-> "Panic", msg |-> m, line |-> line]
\* the io::Error of a read at the end of the buffer
Eof(line) == Err("failed to fill whole buffer", line)

-----------------------------------------------------------------------------
(* disassemble *)

\* how disassemble ends: nothing runs after it
Stop(res) ==
    /\ pc' = "done"
    /\ result' = res

\* lines 21-25: the magic
ReadMagic ==
    /\ pc = "magic"
    /\ LET n == Min(8, Len(buf))
       IN  /\ cursor' = NumOf(n)
           /\ maxread' = Max(maxread, n)
    /\ IF MagicOk(MagicBytes(buf))
       THEN pc' = "sizes" /\ result' = result
       ELSE Stop(Err("Invalid file magic", 24))
    /\ UNCHANGED <<buf, checks, hashsize, refsize, fd, stack, calls,
                   structs, lists, loads, tree, xml>>

\* lines 32-33: ref_start and param_start, as the build computes them
Sections(hs, rs, chk) ==
    LET a == Add32(NumOf(16), hs, chk)
        b == Add32(a.val, rs, chk)
    IN  [panic |-> a.panic \/ b.panic, line |-> IF a.panic THEN 32 ELSE 33,
         ref_start |-> a.val, param_start |-> b.val]

\* lines 27-36: the two sizes and the FileData (the allocation of line 34
\* is taken to succeed)
ReadSizes ==
    /\ pc = "sizes"
    /\ IF ~Avail(buf, cursor, 4)
       THEN /\ Stop(Eof(27))
            /\ UNCHANGED <<cursor, maxread, hashsize, refsize, fd>>
       ELSE LET hs == U32LE(Bytes(buf, cursor, 4))
                c1 == Advance(cursor, 4)
            IN  /\ hashsize' = hs
                /\ IF ~Avail(buf, c1, 4)
                   THEN /\ Stop(Eof(29))
                        /\ cursor' = c1
                        /\ maxread' = Max(maxread, c1.lo)
                        /\ UNCHANGED <<refsize, fd>>
                   ELSE LET rs == U32LE(Bytes(buf, c1, 4))
                            s == Sections(hs, rs, checks)
                        IN  /\ refsize' = rs
                            /\ cursor' = Advance(c1, 4)
                            /\ maxread' = Max(maxread, c1.lo + 4)
                            /\ IF s.panic
                               THEN /\ Stop(Panic("attempt to add with overflow", s.line))
                                    /\ fd' = fd
                               ELSE /\ pc' = "hashes"
                                    /\ result' = result
                                    /\ fd' = [ref_start |-> s.ref_start,
                                              param_start |-> s.param_start,
                                              hash_table |-> <<>>,
                                              ref_tables |-> EmptyTables]
    /\ UNCHANGED <<buf, checks, stack, calls, structs, lists, loads, tree, xml>>

\* line 28
hashnum == NumDiv8(hashsize)

\* lines 38-40: one turn of the loop
LoadHash ==
    /\ pc = "hashes"
    /\ NumLess(NumOf(Len(fd.hash_table)), hashnum)
    /\ IF Avail(buf, cursor, 8)
       THEN /\ fd' = [fd EXCEPT !.hash_table = Append(@, Bytes(buf, cursor, 8))]
            /\ cursor' = Advance(cursor, 8)
            /\ maxread' = Max(maxread, cursor.lo + 8)
            /\ UNCHANGED <<pc, result>>
       ELSE /\ Stop(Eof(39))
            /\ UNCHANGED <<fd, cursor, maxread>>
    /\ UNCHANGED <<buf, checks, hashsize, refsize, stack, calls,
                   structs, lists, loads, tree, xml>>

\* lines 42-52: the root must be a Struct
FindRoot ==
    /\ pc = "hashes"
    /\ ~NumLess(NumOf(Len(fd.hash_table)), hashnum)
    /\ LET p == fd.param_start
       IN  IF ~Avail(buf, p, 1)
           THEN /\ Stop(Eof(43))
                /\ cursor' = p
                /\ maxread' = maxread
           ELSE /\ maxread' = Max(maxread, p.lo + 1)
                /\ IF buf[p.lo + 1] # 12
                   THEN /\ Stop(Err("param file does not contain a root", 45))
                        /\ cursor' = Advance(p, 1)
                   ELSE /\ pc' = "call"
                        /\ result' = result
                        /\ cursor' = p
    /\ UNCHANGED <<buf, checks, hashsize, refsize, fd, stack, calls,
                   structs, lists, loads, tree, xml>>

-----------------------------------------------------------------------------
(* read_param *)

Pop(st) == SubSeq(st, 1, Len(st) - 1)

\* a child's value joins its parent's params (lines 123 and 153-155)
Collect(f, v) ==
    [f EXCEPT !.acc = Append(@, IF f.kind = "Struct" THEN <<f.tag, v>> ELSE v),
              !.ats = Append(@, f.at)]

\* read_param returns res to its caller: a List hands an Err on (the ? of
\* line 123), a Struct unwraps it (line 153), disassemble returns it (line 52)
RECURSIVE Return(_, _)
Return(st, res) ==
    IF Len(st) = 0
    THEN [stack |-> st, pc |-> "done", result |-> res]
    ELSE LET top == st[Len(st)]
         IN  IF res.kind = "Err"
             THEN IF top.kind = "Struct"
                  THEN [stack |-> st, pc |-> "done",
                        result |-> Panic("called unwrap on an Err value", 153)]
                  ELSE Return(Pop(st), res)
             ELSE [stack |-> [st EXCEPT ![Len(st)] = Collect(top, res.val)],
                   pc |-> "iter", result |-> Running]

ReturnsTo(st, res) ==
    LET r == Return(st, res)
    IN  /\ stack' = r.stack
        /\ pc' = r.pc
        /\ result' = r.result

Returns(res) == ReturnsTo(stack, res)

\* bytes of the payload of a value-type param (lines 57-88)
Width(tag) == CASE tag \in {1, 2, 3} -> 1
                [] tag \in {4, 5} -> 2
                [] tag \in {6, 7, 8} -> 4

\* the line that reads the payload of a value-type param
ReadLine(tag) == 54 + 4 * tag

\* lines 57-88: the ParamKind a value-type payload decodes to
LeafValue(tag, b) ==
    CASE tag = 1 -> [k |-> "Bool", v |-> b[1] # 0]
      [] tag = 2 -> [k |-> "I8", v |-> IF b[1] >= 128 THEN b[1] - 256 ELSE b[1]]
      [] tag = 3 -> [k |-> "U8", v |-> b[1]]
      [] tag = 4 -> [k |-> "I16", v |-> LET u == b[2] * 256 + b[1]
                                        IN  IF u >= 32768 THEN u - 65536 ELSE u]
      [] tag = 5 -> [k |-> "U16", v |-> b[2] * 256 + b[1]]
      [] tag = 6 -> [k |-> "I32", v |-> I32LE(b)]
      [] tag = 7 -> [k |-> "U32", v |-> U32LE(b)]
      [] tag = 8 -> [k |-> "Float", v |-> U32LE(b)]

\* the tag byte under the cursor, -1 when there is none
Tag == IF Avail(buf, cursor, 1) THEN buf[cursor.lo + 1] ELSE -1

\* line 56: no tag byte left
ReadTagEof ==
    /\ pc = "call"
    /\ Tag = -1
    /\ calls' = calls + 1
    /\ Returns(Eof(56))
    /\ UNCHANGED <<buf, checks, cursor, hashsize, refsize, fd, maxread,
                   structs, lists, loads, tree, xml>>

\* lines 159-165
ReadUnknownTag ==
    /\ pc = "call"
    /\ Tag # -1 /\ Tag \notin 1..12
    /\ calls' = calls + 1
    /\ cursor' = Advance(cursor, 1)
    /\ maxread' = Max(maxread, cursor.lo + 1)
    /\ Returns(Err("encountered invalid param number", 159))
    /\ UNCHANGED <<buf, checks, hashsize, refsize, fd,
                   structs, lists, loads, tree, xml>>

\* lines 57-88
ReadValue ==
    /\ pc = "call"
    /\ Tag \in 1..8
    /\ calls' = calls + 1
    /\ LET c1 == Advance(cursor, 1)
           w == Width(Tag)
       IN  IF Avail(buf, c1, w)
           THEN /\ cursor' = Advance(c1, w)
                /\ maxread' = Max(maxread, c1.lo + w)
                /\ Returns(Ok(LeafValue(Tag, Bytes(buf, c1, w))))
           ELSE /\ cursor' = c1
                /\ maxread' = Max(maxread, c1.lo)
                /\ Returns(Eof(ReadLine(Tag)))
    /\ UNCHANGED <<buf, checks, hashsize, refsize, fd,
                   structs, lists, loads, tree, xml>>

\* line 90: i32 as usize is in the bounds of hash_table
InTable(i, table) == 0 <= i /\ i < Len(table)

\* lines 89-92
ReadHash ==
    /\ pc = "call"
    /\ Tag = 9
    /\ calls' = calls + 1
    /\ LET c1 == Advance(cursor, 1)
       IN  IF ~Avail(buf, c1, 4)
           THEN /\ cursor' = c1
                /\ maxread' = Max(maxread, c1.lo)
                /\ Returns(Eof(90))
           ELSE LET i == I32LE(Bytes(buf, c1, 4))
                IN  /\ cursor' = Advance(c1, 4)
                    /\ maxread' = Max(maxread, c1.lo + 4)
                    /\ IF InTable(i, fd.hash_table)
                       THEN Returns(Ok([k |-> "Hash", v |-> fd.hash_table[i + 1]]))
                       ELSE /\ Stop(Panic("index out of bounds", 90))
                            /\ stack' = stack
    /\ UNCHANGED <<buf, checks, hashsize, refsize, fd,
                   structs, lists, loads, tree, xml>>

\* positions (1-based) of the null bytes at or after position c
Nulls(b, c) == IF c.hi = 0 THEN {i \in (c.lo + 1)..Len(b) : b[i] = 0} ELSE {}

SetMin(S) == CHOOSE x \in S : \A y \in S : x <= y

\* lines 93-110
ReadStr ==
    /\ pc = "call"
    /\ Tag = 10
    /\ calls' = calls + 1
    /\ LET c1 == Advance(cursor, 1)
       IN  IF ~Avail(buf, c1, 4)
           THEN /\ cursor' = c1
                /\ maxread' = Max(maxread, c1.lo)
                /\ Returns(Eof(94))
           ELSE LET strpos == U32LE(Bytes(buf, c1, 4))
                    at == Add32(fd.ref_start, strpos, checks)
                    z == Nulls(buf, at.val)
                IN  IF at.panic
                    THEN /\ Stop(Panic("attempt to add with overflow", 97))
                         /\ stack' = stack
                         /\ cursor' = Advance(c1, 4)
                         /\ maxread' = Max(maxread, c1.lo + 4)
                    ELSE IF z = {}
                    THEN /\ cursor' = at.val
                         /\ maxread' = IF Avail(buf, at.val, 1)
                                       THEN Len(buf)
                                       ELSE Max(maxread, c1.lo + 4)
                         /\ Returns(Eof(101))
                    ELSE /\ cursor' = NumOf(SetMin(z))
                         /\ maxread' = Max(maxread, SetMin(z))
                         /\ Returns(Ok([k |-> "Str",
                                        v |-> SubSeq(buf, at.val.lo + 1, SetMin(z) - 1)]))
    /\ UNCHANGED <<buf, checks, hashsize, refsize, fd,
                   structs, lists, loads, tree, xml>>

-----------------------------------------------------------------------------
(* read_param: List and Struct *)

\* n items of w bytes each can be read at position c
Fits(b, c, n, w) ==
    \/ n = Zero
    \/ /\ c.hi = 0
       /\ c.lo <= Len(b)
       /\ ~NumLess(NumOf((Len(b) - c.lo) \div w), n)

\* the offset table read back to front
ReversedOffsets(b, c, n) ==
    [i \in 1..n |-> U32LE(Bytes(b, Advance(c, 4 * (n - i)), 4))]

\* lines 115-117: the offset table
ReadOffsets(b, c, n) ==
    [i \in 1..n |-> U32LE(Bytes(b, Advance(c, 4 * (i - 1)), 4))]

\* lines 134-139: the (hash index, param offset) pairs on disk
ReadPairs(b, c, n) ==
    [i \in 1..n |-> <<U32LE(Bytes(b, Advance(c, 8 * (i - 1)), 4)),
                      U32LE(Bytes(b, Advance(c, 8 * (i - 1) + 4), 4))>>]

\* x goes behind the entries of the sorted table whose key is not greater
InsertByKey(sorted, x) ==
    LET k == Cardinality({i \in 1..Len(sorted) : ~NumLess(x[1], sorted[i][1])})
    IN  SubSeq(sorted, 1, k) \o <<x>> \o SubSeq(sorted, k + 1, Len(sorted))

RECURSIVE StableSort(_)
StableSort(t) ==
    IF Len(t) = 0 THEN t
    ELSE InsertByKey(StableSort(SubSeq(t, 1, Len(t) - 1)), t[Len(t)])

\* the table kept in its on-disk order
NoSort(t) == t

\* line 140: new_table.sort_by_key(|a| a.0)
SortByKey(t) == StableSort(t)

\* a cache that is never consulted
AlwaysMiss(tables, refpos) == TRUE

\* line 132: !fd.ref_tables.contains_key(&refpos)
CacheMiss(tables, refpos) == refpos \notin DOMAIN tables

\* line 141: fd.ref_tables.insert(refpos, RefTable(new_table))
Insert(tables, refpos, t) ==
    [r \in DOMAIN tables \cup {refpos} |-> IF r = refpos THEN t ELSE tables[r]]

\* lines 120 and 152: pos + offset as u64
ChildPos(pos, offset) == NumAdd(NumOf(pos), offset)

Frame(kind, pos, size, r, items) ==
    [kind |-> kind, pos |-> pos, size |-> size, r |-> r, items |-> items,
     next |-> 1, acc |-> <<>>, ats |-> <<>>, at |-> Zero, tag |-> <<>>]

\* lines 121 and 153: a call the process stack has no room for
StackOverflow ==
    /\ pc = "call"
    /\ Tag \in {11, 12}
    /\ Len(stack) >= MaxDepth
    /\ calls' = calls + 1
    /\ Stop(Panic("stack overflow", 55))
    /\ UNCHANGED <<buf, checks, cursor, hashsize, refsize, fd, stack, maxread,
                   structs, lists, loads, tree, xml>>

\* lines 111-117: the header and the offset table of a List
ReadList ==
    /\ pc = "call"
    /\ Tag = 11
    /\ Len(stack) < MaxDepth
    /\ calls' = calls + 1
    /\ LET pos == cursor.lo
           c1 == Advance(cursor, 1)
           c2 == Advance(c1, 4)
       IN  IF ~Avail(buf, c1, 4)
           THEN /\ cursor' = c1
                /\ maxread' = Max(maxread, c1.lo)
                /\ Returns(Eof(113))
           ELSE LET size == U32LE(Bytes(buf, c1, 4))
                IN  IF ~Fits(buf, c2, size, 4)
                    THEN /\ cursor' = NumOf(c2.lo + 4 * ((Len(buf) - c2.lo) \div 4))
                         /\ maxread' = Max(maxread, c2.lo + 4 * ((Len(buf) - c2.lo) \div 4))
                         /\ Returns(Eof(116))
                    ELSE /\ cursor' = Advance(c2, 4 * size.lo)
                         /\ maxread' = Max(maxread, c2.lo + 4 * size.lo)
                         /\ stack' = Append(stack,
                                Frame("List", pos, size, Zero,
                                      ReadOffsets(buf, c2, size.lo)))
                         /\ pc' = "iter"
                         /\ result' = result
    /\ UNCHANGED <<buf, checks, hashsize, refsize, fd,
                   structs, lists, loads, tree, xml>>

\* lines 127-144: the header of a Struct and its reference table
ReadStruct ==
    /\ pc = "call"
    /\ Tag = 12
    /\ Len(stack) < MaxDepth
    /\ calls' = calls + 1
    /\ LET pos == cursor.lo
           c1 == Advance(cursor, 1)
           c2 == Advance(c1, 4)
           c3 == Advance(c2, 4)
       IN  IF ~Avail(buf, c1, 8)
           THEN /\ Stop(Panic("called unwrap on an Err value",
                           IF Avail(buf, c1, 4) THEN 130 ELSE 129))
                /\ cursor' = IF Avail(buf, c1, 4) THEN c2 ELSE c1
                /\ maxread' = Max(maxread, IF Avail(buf, c1, 4) THEN c2.lo ELSE c1.lo)
                /\ UNCHANGED <<stack, fd, loads>>
           ELSE LET size == U32LE(Bytes(buf, c1, 4))
                    refpos == U32LE(Bytes(buf, c2, 4))
                    at == Add32(fd.ref_start, refpos, checks)
                IN  IF ~CacheMiss(fd.ref_tables, refpos)
                    THEN /\ cursor' = c3
                         /\ maxread' = Max(maxread, c3.lo)
                         /\ stack' = Append(stack,
                                Frame("Struct", pos, size, refpos,
                                      fd.ref_tables[refpos]))
                         /\ pc' = "iter"
                         /\ UNCHANGED <<result, fd, loads>>
                    ELSE IF at.panic
                    THEN /\ Stop(Panic("attempt to add with overflow", 133))
                         /\ cursor' = c3
                         /\ maxread' = Max(maxread, c3.lo)
                         /\ UNCHANGED <<stack, fd, loads>>
                    ELSE IF ~Fits(buf, at.val, size, 8)
                    THEN /\ Stop(Panic("called unwrap on an Err value", 136))
                         /\ cursor' = at.val
                         /\ maxread' = Max(maxread, c3.lo)
                         /\ UNCHANGED <<stack, fd, loads>>
                    ELSE LET t == SortByKey(ReadPairs(buf, at.val, size.lo))
                         IN  /\ cursor' = Advance(at.val, 8 * size.lo)
                             /\ maxread' = Max(maxread,
                                    IF size.lo = 0 THEN c3.lo
                                    ELSE Max(c3.lo, at.val.lo + 8 * size.lo))
                             /\ fd' = [fd EXCEPT !.ref_tables = Insert(@, refpos, t)]
                             /\ loads' = Append(loads, refpos)
                             /\ stack' = Append(stack,
                                    Frame("Struct", pos, size, refpos, t))
                             /\ pc' = "iter"
                             /\ result' = result
    /\ UNCHANGED <<buf, checks, hashsize, refsize, structs, lists, tree, xml>>

Top == stack[Len(stack)]

\* lines 119-122: the next element of a List
ListNext ==
    /\ pc = "iter"
    /\ Top.kind = "List"
    /\ Top.next <= Len(Top.items)
    /\ LET at == ChildPos(Top.pos, Top.items[Top.next])
       IN  /\ cursor' = at
           /\ stack' = [stack EXCEPT ![Len(stack)] =
                            [Top EXCEPT !.next = @ + 1, !.at = at]]
    /\ pc' = "call"
    /\ UNCHANGED <<buf, checks, hashsize, refsize, fd, result, calls, maxread,
                   structs, lists, loads, tree, xml>>

\* lines 150-153: the next member of a Struct
StructNext ==
    /\ pc = "iter"
    /\ Top.kind = "Struct"
    /\ Top.next <= Len(Top.items)
    /\ LET hash_index == Top.items[Top.next][1]
           at == ChildPos(Top.pos, Top.items[Top.next][2])
       IN  IF NumLess(hash_index, NumOf(Len(fd.hash_table)))
           THEN /\ cursor' = at
                /\ stack' = [stack EXCEPT ![Len(stack)] =
                                 [Top EXCEPT !.next = @ + 1, !.at = at,
                                             !.tag = fd.hash_table[hash_index.lo + 1]]]
                /\ pc' = "call"
                /\ result' = result
           ELSE /\ Stop(Panic("index out of bounds", 151))
                /\ UNCHANGED <<cursor, stack>>
    /\ UNCHANGED <<buf, checks, hashsize, refsize, fd, calls, maxread,
                   structs, lists, loads, tree, xml>>

\* lines 123-125: Ok(ParamKind::List(params))
ListDone ==
    /\ pc = "iter"
    /\ Top.kind = "List"
    /\ Top.next > Len(Top.items)
    /\ ReturnsTo(Pop(stack), Ok([k |-> "List", v |-> Top.acc]))
    /\ lists' = lists \cup {[pos |-> Top.pos, size |-> Top.size,
                             offsets |-> Top.items, ats |-> Top.ats,
                             kinds |-> [i \in 1..Len(Top.acc) |-> Top.acc[i].k]]}
    /\ UNCHANGED <<buf, checks, cursor, hashsize, refsize, fd, calls, maxread,
                   structs, loads, tree, xml>>

\* lines 155-157: Ok(ParamKind::Struct(params))
StructDone ==
    /\ pc = "iter"
    /\ Top.kind = "Struct"
    /\ Top.next > Len(Top.items)
    /\ ReturnsTo(Pop(stack), Ok([k |-> "Struct", v |-> Top.acc]))
    /\ structs' = structs \cup {[pos |-> Top.pos, size |-> Top.size, r |-> Top.r,
                                 table |-> Top.items, ats |-> Top.ats,
                                 tags |-> [i \in 1..Len(Top.acc) |-> Top.acc[i][1]]]}
    /\ UNCHANGED <<buf, checks, cursor, hashsize, refsize, fd, calls, maxread,
                   lists, loads, tree, xml>>

-----------------------------------------------------------------------------
(* Input buffers *)

LE32N(n) == <<n.lo % 256, n.lo \div 256, n.hi % 256, n.hi \div 256>>

LE32(n) == LE32N(NumOf(n))

\* one reference-table entry on disk
Pair(i, o) == LE32(i) \o LE32(o)

\* the i-th entry of a hash table
HashEntry(i) == <<160 + i, 1, 2, 3, 4, 0, 0, 0>>

\* A root Struct of three members whose reference table is stored in the
\* order 2, 0, 1: a Bool, a List of a U8, a U32 and an empty Struct, a Str.
FileOrder ==
    MAGIC \o LE32(24) \o LE32(27)
    \o HashEntry(0) \o HashEntry(1) \o HashEntry(2)
    \o Pair(2, 44) \o Pair(0, 9) \o Pair(1, 11) \o <<104, 105, 0>>
    \o <<12>> \o LE32(3) \o LE32(0)
    \o <<1, 1>>
    \o <<11>> \o LE32(3) \o LE32(17) \o LE32(19) \o LE32(24)
    \o <<3, 7>>
    \o <<7>> \o LE32(70000)
    \o <<12>> \o LE32(0) \o LE32(24)
    \o <<10>> \o LE32(24)

\* A root Struct holding a List of two Structs that share one reference
\* table, stored in the order 1, 0.
FileShared ==
    MAGIC \o LE32(16) \o LE32(24)
    \o HashEntry(0) \o HashEntry(1)
    \o Pair(0, 9) \o Pair(1, 11) \o Pair(0, 9)
    \o <<12>> \o LE32(1) \o LE32(0)
    \o <<11>> \o LE32(2) \o LE32(13) \o LE32(26)
    \o <<12>> \o LE32(2) \o LE32(8)
    \o <<1, 0>>
    \o <<2, 255>>
    \o <<12>> \o LE32(2) \o LE32(8)
    \o <<1, 1>>
    \o <<9>> \o LE32(1)

\* A root Struct holding a List with one element of every value type.
FileValues ==
    MAGIC \o LE32(8) \o LE32(10)
    \o HashEntry(0)
    \o Pair(0, 9) \o <<65, 0>>
    \o <<12>> \o LE32(1) \o LE32(0)
    \o <<11>> \o LE32(10)
    \o LE32(45) \o LE32(47) \o LE32(49) \o LE32(51) \o LE32(54)
    \o LE32(57) \o LE32(62) \o LE32(67) \o LE32(72) \o LE32(77)
    \o <<1, 1>>
    \o <<2, 128>>
    \o <<3, 200>>
    \o <<4, 0, 128>>
    \o <<5, 1, 2>>
    \o <<6, 255, 255, 255, 255>>
    \o <<7, 0, 0, 0, 128>>
    \o <<8, 0, 0, 128, 63>>
    \o <<9>> \o LE32(0)
    \o <<10>> \o LE32(8)

\* A header with the given sizes before three hash entries, the first of
\* which reads as an empty Struct, and an empty root Struct at offset 40.
FileHeader(hs, rs) ==
    MAGIC \o LE32N(hs) \o LE32N(rs)
    \o <<12, 0, 0, 0, 0, 0, 0, 0>> \o <<0, 0, 0, 0, 0, 0, 0, 0>> \o HashEntry(2)
    \o <<12>> \o LE32(0) \o LE32(0)

HashSizes == {NumOf(0), NumOf(12), NumOf(24),
              [hi |-> 65535, lo |-> 65520], [hi |-> 65535, lo |-> 65535]}

RefSizes == {NumOf(0), NumOf(8),
             [hi |-> 65535, lo |-> 65512], [hi |-> 65535, lo |-> 65500],
             [hi |-> 65535, lo |-> 65535]}

Files == {FileOrder, FileShared, FileValues}

\* the bytes a damaged file holds in place of one of its own
Damage == {0, 1, 2, 12, 255}

Truncated(f, n) == SubSeq(f, 1, n)

Damaged(f, i, b) == [f EXCEPT ![i] = b]

Inputs ==
    UNION {{Truncated(f, n) : n \in 0..Len(f)} : f \in Files}
    \cup UNION {{Damaged(f, i, b) : i \in 1..Len(f), b \in Damage} : f \in Files}
    \cup {FileHeader(hs, rs) : hs \in HashSizes, rs \in RefSizes}

-----------------------------------------------------------------------------
(* The decoder as a state machine *)

Init ==
    /\ buf \in Inputs
    /\ checks \in BOOLEAN
    /\ cursor = Zero
    /\ pc = "magic"
    /\ hashsize = Zero
    /\ refsize = Zero
    /\ fd = NoFd
    /\ stack = <<>>
    /\ result = Running
    /\ calls = 0
    /\ maxread = 0
    /\ structs = {}
    /\ lists = {}
    /\ loads = <<>>
    /\ tree = <<>>
    /\ xml = <<>>

Next ==
    \/ ReadMagic
    \/ ReadSizes
    \/ LoadHash
    \/ FindRoot
    \/ ReadTagEof
    \/ ReadUnknownTag
    \/ ReadValue
    \/ ReadHash
    \/ ReadStr
    \/ ReadList
    \/ ReadStruct
    \/ StackOverflow
    \/ ListNext
    \/ StructNext
    \/ ListDone
    \/ StructDone

Spec == Init /\ [][Next]_vars

-----------------------------------------------------------------------------
(* Properties of the decoder *)

Range(f) == {f[i] : i \in DOMAIN f}

Count(f, x) == Cardinality({i \in DOMAIN f : f[i] = x})

SameEntries(a, b) ==
    /\ Len(a) = Len(b)
    /\ \A x \in Range(a) \cup Range(b) : Count(a, x) = Count(b, x)

\* the ParamKind variant a tag byte selects (the arms of lines 56-158)
KindOf(tag) ==
    CASE tag = 1 -> "Bool" [] tag = 2 -> "I8" [] tag = 3 -> "U8"
      [] tag = 4 -> "I16" [] tag = 5 -> "U16" [] tag = 6 -> "I32"
      [] tag = 7 -> "U32" [] tag = 8 -> "Float" [] tag = 9 -> "Hash"
      [] tag = 10 -> "Str" [] tag = 11 -> "List" [] tag = 12 -> "Struct"
      [] OTHER -> "none"

\* the reference table of a decoded Struct as it lies in the buffer
DiskTable(s) ==
    ReadPairs(buf, Wrap32(NumAdd(fd.ref_start, s.r)), Len(s.table))

\* C1: the members of every decoded Struct are the entries of its on-disk
\* reference table in ascending order of hash index, whatever their order on
\* disk; the i-th member is tagged hash_table[index] of the i-th entry and
\* was decoded at the Struct's position plus that entry's field offset.
StructMembersAscending ==
    \A s \in structs :
        /\ Len(s.tags) = Len(s.table)
        /\ Len(s.ats) = Len(s.table)
        /\ SameEntries(s.table, DiskTable(s))
        /\ \A i, j \in 1..Len(s.table) :
               i < j => ~NumLess(s.table[j][1], s.table[i][1])
        /\ \A i \in 1..Len(s.table) :
               /\ s.tags[i] = fd.hash_table[s.table[i][1].lo + 1]
               /\ s.ats[i] = NumAdd(NumOf(s.pos), s.table[i][2])

\* a Struct of three members was decoded whose table is stored as 2, 0, 1
StructUnsortedOnDisk ==
    \E s \in structs :
        /\ Len(s.table) = 3
        /\ [i \in 1..3 |-> DiskTable(s)[i][1]] = <<NumOf(2), NumOf(0), NumOf(1)>>
        /\ [i \in 1..3 |-> s.table[i][1]] = <<NumOf(0), NumOf(1), NumOf(2)>>

\* C2: all Structs of one decode that carry the same reference-table offset
\* are decoded with the same descriptors and so the same member count, the
\* descriptors being the entry the cache holds for that offset, which is
\* read from the buffer at most once and never replaced.
SharedTableStable ==
    /\ \A s \in structs :
           /\ s.r \in DOMAIN fd.ref_tables
           /\ s.table = fd.ref_tables[s.r]
           /\ Len(s.tags) = Len(s.table)
    /\ \A s, t \in structs :
           s.r = t.r => s.table = t.table /\ Len(s.tags) = Len(t.tags)
    /\ \A i \in 1..Len(stack) :
           stack[i].kind = "Struct" =>
               /\ stack[i].r \in DOMAIN fd.ref_tables
               /\ stack[i].items = fd.ref_tables[stack[i].r]
    /\ \A i, j \in 1..Len(loads) : i # j => loads[i] # loads[j]

\* two Structs at different places share a table and declare different counts
StructsShareTable ==
    \E s, t \in structs :
        /\ s.r = t.r
        /\ s.pos # t.pos
        /\ s.size # t.size
        /\ Len(s.table) > 0

\* C3: a Hash value whose index is not in hash_table is reported as an
\* error: the lookup of line 90 never aborts the process.
HashIndexReported == ~(result.kind = "Panic" /\ result.line = 90)

\* C4: disassemble ends by returning a tree or an error: the reads of a
\* Struct's header and reference table and the decoding of its members do
\* not abort the process.
ReadFailuresReturned ==
    ~(result.kind = "Panic" /\ result.line \in {129, 130, 136, 153})

\* C5: no Struct is produced whose number of members differs from the
\* member count it declares.
DeclaredCountChecked ==
    \A s \in structs : s.size = NumOf(Len(s.tags))

\* C6: every decoded List of declared count n has n elements, and its i-th
\* element is the value decoded at the List's position plus the i-th offset
\* of its on-disk offset table.
ListInOffsetOrder ==
    \A l \in lists :
        /\ buf[l.pos + 1] = 11
        /\ l.size = NumOf(Len(l.kinds))
        /\ Len(l.offsets) = Len(l.kinds)
        /\ Len(l.ats) = Len(l.kinds)
        /\ \A i \in 1..Len(l.kinds) :
               LET p == l.pos + 5 + 4 * (i - 1)
                   o == [hi |-> buf[p + 4] * 256 + buf[p + 3],
                         lo |-> buf[p + 2] * 256 + buf[p + 1]]
                   at == NumAdd(NumOf(l.pos), o)
               IN  /\ l.offsets[i] = o
                   /\ l.ats[i] = at
                   /\ Avail(buf, at, 1)
                   /\ l.kinds[i] = KindOf(buf[at.lo + 1])

\* a List of a U8, a U32 and a Struct was decoded
ListOfThreeDecoded ==
    \E l \in lists : l.kinds = <<"U8", "U32", "Struct">>

\* C7: a buffer whose first 8 bytes are not the signature is refused with
\* the bad-magic error, and nothing after the magic is read: the cursor is
\* not past offset 8, no size is read, no hash is loaded and read_param is
\* not invoked.
BadMagicReadsNothing ==
    (pc # "magic" /\ MagicBytes(buf) # MAGIC) =>
        /\ pc = "done"
        /\ result.kind = "Err"
        /\ result.line = 24
        /\ maxread <= 8
        /\ ~NumLess(NumOf(8), cursor)
        /\ hashsize = Zero
        /\ refsize = Zero
        /\ fd = NoFd
        /\ stack = <<>>
        /\ calls = 0

\* a whole file with one wrong magic byte was refused
BadMagicRefused ==
    /\ pc = "done"
    /\ result.kind = "Err"
    /\ result.line = 24
    /\ Len(buf) > 100

\* C9: the recursion of read_param is bounded by the nesting of the value:
\* no List or Struct is entered again while it is being decoded, and the
\* process stack is never exhausted.
RecursionBounded ==
    /\ \A i, j \in 1..Len(stack) : i < j => stack[i].pos # stack[j].pos
    /\ ~(result.kind = "Panic" /\ result.line = 55)

\* C10: ref_start and param_start are the exact sums 16 + hash_size and
\* 16 + hash_size + ref_size: once both sizes are read the sums have not
\* aborted the process and have not wrapped.
ExactSections ==
    (pc \notin {"magic", "sizes"} /\ maxread >= 16) =>
        /\ ~(result.kind = "Panic" /\ result.line \in {32, 33})
        /\ result.kind = "Panic" \/
               /\ fd.ref_start = NumAdd(NumOf(16), hashsize)
               /\ fd.param_start = NumAdd(NumAdd(NumOf(16), hashsize), refsize)

-----------------------------------------------------------------------------
(* write_xml *)

\* the events handed to the quick-xml Writer
Decl == [ev |-> "Decl", name |-> "xml", attr |-> <<>>, text |-> <<>>]
Start(name, attr) == [ev |-> "Start", name |-> name, attr |-> attr, text |-> <<>>]
Empty(name, attr) == [ev |-> "Empty", name |-> name, attr |-> attr, text |-> <<>>]
Text(t) == [ev |-> "Text", name |-> "", attr |-> <<>>, text |-> t]
End(name) == [ev |-> "End", name |-> name, attr |-> <<>>, text |-> <<>>]

\* lines 267-276: the element name of a value-type param
TagName(k) ==
    CASE k = "Bool" -> "bool" [] k = "I8" -> "sbyte" [] k = "U8" -> "byte"
      [] k = "I16" -> "short" [] k = "U16" -> "ushort" [] k = "I32" -> "int"
      [] k = "U32" -> "uint" [] k = "Float" -> "float" [] k = "Hash" -> "hash40"
      [] k = "Str" -> "string"

\* format!("{}", value): booleans as true/false, integers in decimal, a
\* string as it is; the text of an f32 and of a Hash40 is that of its value
Display(p) ==
    CASE p.k = "Bool" -> (IF p.v THEN "true" ELSE "false")
      [] p.k \in {"I8", "U8", "I16", "U16", "I32"} -> ToString(p.v)
      [] p.k = "U32" -> ToString(p.v.hi * 65536 + p.v.lo)
      [] p.k = "Str" -> p.v
      [] OTHER -> ToString(p.v)

RECURSIVE param_to_node(_, _)
RECURSIVE ListChildren(_, _)
RECURSIVE StructChildren(_, _)

\* lines 299-301, from the i-th child on
ListChildren(param, i) ==
    IF i > Len(param) THEN <<>>
    ELSE param_to_node(param[i], <<"index", ToString(i - 1)>>)
         \o ListChildren(param, i + 1)

\* lines 322-324, from the i-th child on
StructChildren(param, i) ==
    IF i > Len(param) THEN <<>>
    ELSE param_to_node(param[i][2], <<"hash", ToString(param[i][1])>>)
         \o StructChildren(param, i + 1)

\* a list element with a start and an end tag whatever it holds
OpenList(param, attr) ==
    <<Start("list", attr)>> \o ListChildren(param, 1) \o <<End("list")>>

\* lines 284-305
list_to_node(param, attr) ==
    IF Len(param) = 0
    THEN <<Empty("list", attr)>>
    ELSE <<Start("list", attr)>> \o ListChildren(param, 1) \o <<End("list")>>

\* lines 307-328
struct_to_node(param, attr) ==
    IF Len(param) = 0
    THEN <<Empty("struct", attr)>>
    ELSE <<Start("struct", attr)>> \o StructChildren(param, 1) \o <<End("struct")>>

\* lines 245-282
param_to_node(param, attr) ==
    CASE param.k = "List" -> list_to_node(param.v, attr)
      [] param.k = "Struct" -> struct_to_node(param.v, attr)
      [] OTHER -> <<Start(TagName(param.k), attr), Text(Display(param)),
                    End(TagName(param.k))>>

\* lines 84-89
write_xml(param) == <<Decl>> \o struct_to_node(param, <<>>)

\* write_xml(&tree, &mut writer)
WriteXml ==
    /\ pc = "xml"
    /\ xml' = write_xml(tree)
    /\ pc' = "written"
    /\ UNCHANGED <<buf, checks, cursor, hashsize, refsize, fd, stack, result,
                   calls, maxread, structs, lists, loads, tree>>

(* The value trees given to write_xml *)

Values == {[k |-> "Bool", v |-> TRUE], [k |-> "U8", v |-> 7],
           [k |-> "Str", v |-> "hi"]}

Hollow == {[k |-> "List", v |-> <<>>], [k |-> "Struct", v |-> <<>>]}

\* the sequences over S of 1 to n entries
Seqs(S, n) == UNION {[1..m -> S] : m \in 1..n}

Tagged(q) == [i \in 1..Len(q) |-> <<HashEntry(i - 1), q[i]>>]

Flat == Values \cup Hollow

Nested ==
    Flat
    \cup {[k |-> "List", v |-> q] : q \in Seqs(Flat, MaxWidth)}
    \cup {[k |-> "Struct", v |-> Tagged(q)] : q \in Seqs(Flat, MaxWidth)}

Trees ==
    {<<>>}
    \cup {Tagged(<<a>>) : a \in Nested}
    \cup {Tagged(<<a, b>>) : a \in Nested, b \in Flat}

XmlInit ==
    /\ tree \in Trees
    /\ xml = <<>>
    /\ pc = "xml"
    /\ buf = <<>>
    /\ checks = FALSE
    /\ cursor = Zero
    /\ hashsize = Zero
    /\ refsize = Zero
    /\ fd = NoFd
    /\ stack = <<>>
    /\ result = Running
    /\ calls = 0
    /\ maxread = 0
    /\ structs = {}
    /\ lists = {}
    /\ loads = <<>>

XmlNext == WriteXml

SpecXml == XmlInit /\ [][XmlNext]_vars

-----------------------------------------------------------------------------
(* Properties of write_xml *)

Containers == {"list", "struct"}

\* what a node must be rendered as: its element name, whether it is a
\* self-closed element, and its children in their stored order
RECURSIVE Shape(_)
Shape(p) ==
    CASE p.k = "List" ->
             [name |-> "list", closed |-> Len(p.v) = 0,
              kids |-> [i \in 1..Len(p.v) |-> Shape(p.v[i])]]
      [] p.k = "Struct" ->
             [name |-> "struct", closed |-> Len(p.v) = 0,
              kids |-> [i \in 1..Len(p.v) |-> Shape(p.v[i][2])]]
      [] OTHER -> [name |-> TagName(p.k), closed |-> FALSE, kids |-> <<>>]

Bad == [ok |-> FALSE, next |-> 0, node |-> <<>>, kids |-> <<>>]

RECURSIVE ParseNode(_, _)
RECURSIVE ParseKids(_, _, _)

\* the element that starts at event i, and the index of the event after it
ParseNode(evs, i) ==
    IF i > Len(evs) THEN Bad
    ELSE IF evs[i].ev = "Empty"
    THEN IF evs[i].name \in Containers
         THEN [ok |-> TRUE, next |-> i + 1, kids |-> <<>>,
               node |-> [name |-> evs[i].name, closed |-> TRUE, kids |-> <<>>]]
         ELSE Bad
    ELSE IF evs[i].ev # "Start" THEN Bad
    ELSE IF evs[i].name \in Containers
    THEN LET r == ParseKids(evs, i + 1, evs[i].name)
         IN  IF r.ok /\ Len(r.kids) > 0
             THEN [ok |-> TRUE, next |-> r.next, kids |-> <<>>,
                   node |-> [name |-> evs[i].name, closed |-> FALSE,
                             kids |-> r.kids]]
             ELSE Bad
    ELSE IF /\ i + 2 <= Len(evs)
            /\ evs[i + 1].ev = "Text"
            /\ evs[i + 2].ev = "End"
            /\ evs[i + 2].name = evs[i].name
    THEN [ok |-> TRUE, next |-> i + 3, kids |-> <<>>,
          node |-> [name |-> evs[i].name, closed |-> FALSE, kids |-> <<>>]]
    ELSE Bad

\* the elements from event i up to the end tag of their parent
ParseKids(evs, i, name) ==
    IF i > Len(evs) THEN Bad
    ELSE IF evs[i].ev = "End"
    THEN IF evs[i].name = name
         THEN [ok |-> TRUE, next |-> i + 1, kids |-> <<>>, node |-> <<>>]
         ELSE Bad
    ELSE LET n == ParseNode(evs, i)
         IN  IF ~n.ok THEN Bad
             ELSE LET r == ParseKids(evs, n.next, name)
                  IN  IF ~r.ok THEN Bad
                      ELSE [ok |-> TRUE, next |-> r.next, node |-> <<>>,
                            kids |-> <<n.node>> \o r.kids]

\* the number of nodes of a tree
RECURSIVE Nodes(_)
RECURSIVE NodesFrom(_, _, _)
Nodes(p) ==
    IF p.k = "List" THEN 1 + NodesFrom(p.v, 1, FALSE)
    ELSE IF p.k = "Struct" THEN 1 + NodesFrom(p.v, 1, TRUE)
    ELSE 1
NodesFrom(q, i, tagged) ==
    IF i > Len(q) THEN 0
    ELSE Nodes(IF tagged THEN q[i][2] ELSE q[i]) + NodesFrom(q, i + 1, tagged)

Root == [k |-> "Struct", v |-> tree]

\* C8: the events written for a tree are the declaration and then a
\* well-nested depth-first rendering of it: one element per node, children
\* in their stored order, an empty List or Struct as one self-closed element
\* and a non-empty one as a start tag, its children and the matching end tag.
XmlWellNested ==
    pc = "written" =>
        /\ xml[1].ev = "Decl"
        /\ LET r == ParseNode(xml, 2)
           IN  /\ r.ok
               /\ r.next = Len(xml) + 1
               /\ r.node = Shape(Root)
        /\ Cardinality({i \in 1..Len(xml) : xml[i].ev \in {"Start", "Empty"}})
               = Nodes(Root)
        /\ Cardinality({i \in 1..Len(xml) : xml[i].ev = "Empty"})
               + Cardinality({i \in 1..Len(xml) : xml[i].ev = "End"})
               = Nodes(Root)

\* a tree with an empty List beside a value inside a Struct was written
XmlEmptyInside ==
    /\ pc = "written"
    /\ Len(tree) = 2
    /\ tree[1][2].k = "Struct"
    /\ Len(tree[1][2].v) = 2
    /\ tree[1][2].v[1][2].k = "List"
    /\ tree[1][2].v[2][2].k = "Bool"
    /\ tree[2][2].k = "Struct"
    /\ Len(tree[2][2].v) = 0

====
